---- MODULE Spec2Model ----
(***************************************************************************)
(* A model of the PBD joint-constraint math kernel                         *)
(* (Chaos/PBDJointConstraintUtilities.cpp, FPBDJointUtilities).            *)
(*                                                                         *)
(* The kernel is a set of pure functions.  The model is a caller that, from*)
(* an idle state, invokes one function on inputs drawn from bounded sets   *)
(* and records the arguments (in) and the returned value (out); Return     *)
(* brings the caller back to idle.                                         *)
(*                                                                         *)
(* FReal values are modelled as exact rationals <<numerator, denominator>> *)
(* in lowest terms with a positive denominator.  The non-finite values of  *)
(* IEEE arithmetic have a zero denominator: <<1, 0>> is +Inf, <<-1, 0>> is *)
(* -Inf and <<0, 0>> is NaN.  Zero is signed as in IEEE arithmetic:        *)
(* <<0, 1>> is +0 and <<0, -1>> is -0; the two compare equal and divide to *)
(* infinities of opposite sign.  Floating-point round-off is not modelled. *)
(***************************************************************************)
EXTENDS Integers, Sequences, FiniteSets, TLC

VARIABLES pc, in, out

vars == <<pc, in, out>>

-----------------------------------------------------------------------------
(* Exact rational arithmetic standing for FReal.                           *)

Abs(n) == IF n < 0 THEN -n ELSE n

RECURSIVE GCD(_, _)
GCD(a, b) == IF b = 0 THEN a ELSE GCD(b, a % b)

Rat(n, d) == LET g == GCD(Abs(n), d) IN <<n \div g, d \div g>>

R(n) == <<n, 1>>

NaN == <<0, 0>>

PosInf == <<1, 0>>

NegInf == <<-1, 0>>

NegZero == <<0, -1>>

IsFinite(a) == a[2] # 0

IsInf(a) == a[2] = 0 /\ a[1] # 0

IsZero(a) == a[1] = 0 /\ a[2] # 0

\* The sign bit as -1 or 1; both zeros and both infinities carry one.
Sign(a) == IF a[1] < 0 \/ (a[1] = 0 /\ a[2] < 0) THEN -1 ELSE 1

Inf(sign) == IF sign < 0 THEN NegInf ELSE PosInf

SignedZero(sign) == IF sign < 0 THEN NegZero ELSE <<0, 1>>

RNeg(a) == IF IsZero(a) THEN <<0, -a[2]>> ELSE <<-a[1], a[2]>>

RAbs(a) == IF IsZero(a) THEN <<0, 1>> ELSE <<Abs(a[1]), a[2]>>

\* IEEE addition: Inf + -Inf is NaN; a sum of zeros is -0 only when both are
\* -0; an exact sum of zero is +0.
RAdd(a, b) ==
    IF a = NaN \/ b = NaN THEN NaN
    ELSE IF IsInf(a) THEN (IF IsInf(b) /\ b # a THEN NaN ELSE a)
    ELSE IF IsInf(b) THEN b
    ELSE IF IsZero(a) THEN (IF IsZero(b) /\ a # b THEN <<0, 1>> ELSE b)
    ELSE IF IsZero(b) THEN a
    ELSE LET g == GCD(a[2], b[2])
         IN  Rat(a[1] * (b[2] \div g) + b[1] * (a[2] \div g), (a[2] \div g) * b[2])

RSub(a, b) == RAdd(a, RNeg(b))

\* IEEE multiplication: 0 * Inf is NaN; the sign of a zero or infinite
\* product is the product of the signs.
RMul(a, b) ==
    IF a = NaN \/ b = NaN THEN NaN
    ELSE IF IsInf(a) \/ IsInf(b)
         THEN (IF IsZero(a) \/ IsZero(b) THEN NaN ELSE Inf(Sign(a) * Sign(b)))
    ELSE IF IsZero(a) \/ IsZero(b) THEN SignedZero(Sign(a) * Sign(b))
    ELSE LET g1 == GCD(Abs(a[1]), b[2])
             g2 == GCD(Abs(b[1]), a[2])
         IN  Rat((a[1] \div g1) * (b[1] \div g2), (a[2] \div g2) * (b[2] \div g1))

\* IEEE division: 0 / 0 and Inf / Inf are NaN; x / 0 is an infinity and
\* x / Inf a zero, each of the sign of x times the sign of the divisor.
RDiv(a, b) ==
    IF a = NaN \/ b = NaN THEN NaN
    ELSE IF IsInf(a) THEN (IF IsInf(b) THEN NaN ELSE Inf(Sign(a) * Sign(b)))
    ELSE IF IsInf(b) THEN SignedZero(Sign(a) * Sign(b))
    ELSE IF IsZero(b) THEN (IF IsZero(a) THEN NaN ELSE Inf(Sign(a) * Sign(b)))
    ELSE IF IsZero(a) THEN SignedZero(Sign(a) * Sign(b))
    ELSE IF b[1] > 0 THEN RMul(a, <<b[2], b[1]>>)
    ELSE RMul(a, <<-b[2], -b[1]>>)

\* a < b for finite a, b, by comparing continued-fraction expansions, so that
\* no cross product of a large denominator is ever formed.
RECURSIVE FracLess(_, _, _, _)
FracLess(an, ad, bn, bd) ==
    LET fa == an \div ad
        fb == bn \div bd
        ra == an % ad
        rb == bn % bd
    IN  IF fa # fb THEN fa < fb
        ELSE IF rb = 0 THEN FALSE
        ELSE IF ra = 0 THEN TRUE
        ELSE FracLess(bd, rb, ad, ra)

\* Comparisons with a NaN operand are false, as for IEEE floats; -Inf is
\* below and +Inf above every finite value; -0 and +0 are equal.
RLess(a, b) ==
    /\ a # NaN /\ b # NaN /\ a # b
    /\ IF IsInf(a) THEN a = NegInf
       ELSE IF IsInf(b) THEN b = PosInf
       ELSE FracLess(a[1], Abs(a[2]), b[1], Abs(b[2]))

RGreater(a, b) == RLess(b, a)

RLeq(a, b) == a # NaN /\ b # NaN /\ ~RLess(b, a)

RGeq(a, b) == RLeq(b, a)

Zero == R(0)

One == R(1)

RMin(a, b) == IF RLess(a, b) THEN a ELSE b

RMax(a, b) == IF RLess(a, b) THEN b ELSE a

\* Core numeric thresholds of the engine.
SMALL_NUMBER == <<1, 100000000>>

KINDA_SMALL_NUMBER == <<1, 10000>>

-----------------------------------------------------------------------------
(* Settings structures.                                                    *)

Axes == 0 .. 2

\* The FReal coefficients that exist both in the solver settings and in the
\* joint settings, with a fixed position used to give every field its own value.
CoefficientIndex ==
    [Stiffness |-> 1, SoftLinearStiffness |-> 2, SoftLinearDamping |-> 3,
     SoftTwistStiffness |-> 4, SoftTwistDamping |-> 5,
     SoftSwingStiffness |-> 6, SoftSwingDamping |-> 7,
     LinearDriveStiffness |-> 8, LinearDriveDamping |-> 9,
     AngularDriveStiffness |-> 10, AngularDriveDamping |-> 11,
     LinearProjection |-> 12, AngularProjection |-> 13]

CoefficientFields == DOMAIN CoefficientIndex

\* Drive enable flags of the joint settings read by this file.
AngularDriveFlags ==
    {"bAngularTwistPositionDriveEnabled", "bAngularTwistVelocityDriveEnabled",
     "bAngularSwingPositionDriveEnabled", "bAngularSwingVelocityDriveEnabled",
     "bAngularSLerpPositionDriveEnabled", "bAngularSLerpVelocityDriveEnabled"}

\* Per-axis linear drive enable flags of the joint settings; no function of
\* this file reads them.
LinearDriveFlags == {"bLinearPositionDriveEnabled", "bLinearVelocityDriveEnabled"}

DriveFlags == AngularDriveFlags \cup LinearDriveFlags

SolverPatterns == {"override", "zero", "negative", "five", "even", "odd"}

SolverValue(p, i) ==
    CASE p = "override" -> R(10 + i)
      [] p = "zero"     -> Zero
      [] p = "negative" -> R(-i)
      [] p = "five"     -> R(5)
      [] p = "even"     -> IF i % 2 = 0 THEN R(10 + i) ELSE Zero
      [] p = "odd"      -> IF i % 2 = 1 THEN R(10 + i) ELSE R(-i)

SolverSettingsSet ==
    {[f \in CoefficientFields |-> SolverValue(p, CoefficientIndex[f])] : p \in SolverPatterns}

JointPatterns == {"two", "own", "zero"}

JointValue(p, i) ==
    CASE p = "two"  -> R(2)
      [] p = "own"  -> R(100 + i)
      [] p = "zero" -> Zero

\* Sets of enabled drive flags: all, none, exactly one, all but one.
EnabledFlagSets ==
    {DriveFlags, {}} \cup {{f} : f \in DriveFlags} \cup {DriveFlags \ {f} : f \in DriveFlags}

JointFlags(enabled) ==
    [f \in DriveFlags |->
        IF f \in LinearDriveFlags THEN [a \in Axes |-> f \in enabled] ELSE f \in enabled]

AllLocked == [a \in Axes |-> "Locked"]

JointSettingsOf(p, enabled, motion, soft, limit) ==
    [f \in CoefficientFields |-> JointValue(p, CoefficientIndex[f])]
    @@ JointFlags(enabled)
    @@ [LinearMotionTypes |-> motion, bSoftLinearLimitsEnabled |-> soft, LinearLimit |-> limit]

\* Joint settings offered to the settings resolver.
ResolverJointSettingsSet ==
    {JointSettingsOf(p, e, AllLocked, FALSE, Zero) : p \in JointPatterns, e \in EnabledFlagSets}

-----------------------------------------------------------------------------
(* Settings resolver (override-if-positive).                               *)

GetLinearStiffness(SolverSettings, JointSettings) ==
    IF RGreater(SolverSettings.Stiffness, Zero)
    THEN SolverSettings.Stiffness ELSE JointSettings.Stiffness

GetSoftLinearStiffness(SolverSettings, JointSettings) ==
    IF RGreater(SolverSettings.SoftLinearStiffness, Zero)
    THEN SolverSettings.SoftLinearStiffness ELSE JointSettings.SoftLinearStiffness

GetSoftLinearDamping(SolverSettings, JointSettings) ==
    IF RGreater(SolverSettings.SoftLinearDamping, Zero)
    THEN SolverSettings.SoftLinearDamping ELSE JointSettings.SoftLinearDamping

GetTwistStiffness(SolverSettings, JointSettings) ==
    IF RGreater(SolverSettings.Stiffness, Zero)
    THEN SolverSettings.Stiffness ELSE JointSettings.Stiffness

GetSoftTwistStiffness(SolverSettings, JointSettings) ==
    IF RGreater(SolverSettings.SoftTwistStiffness, Zero)
    THEN SolverSettings.SoftTwistStiffness ELSE JointSettings.SoftTwistStiffness

GetSoftTwistDamping(SolverSettings, JointSettings) ==
    IF RGreater(SolverSettings.SoftTwistDamping, Zero)
    THEN SolverSettings.SoftTwistDamping ELSE JointSettings.SoftTwistDamping

GetSwingStiffness(SolverSettings, JointSettings) ==
    IF RGreater(SolverSettings.Stiffness, Zero)
    THEN SolverSettings.Stiffness ELSE JointSettings.Stiffness

GetSoftSwingStiffness(SolverSettings, JointSettings) ==
    IF RGreater(SolverSettings.SoftSwingStiffness, Zero)
    THEN SolverSettings.SoftSwingStiffness ELSE JointSettings.SoftSwingStiffness

\* GetSoftSwingDamping falling back on the joint's soft swing stiffness.
GetSoftSwingDamping_WrongField(SolverSettings, JointSettings) ==
    IF RGreater(SolverSettings.SoftSwingDamping, Zero)
    THEN SolverSettings.SoftSwingDamping ELSE JointSettings.SoftSwingStiffness

GetSoftSwingDamping(SolverSettings, JointSettings) ==
    IF RGreater(SolverSettings.SoftSwingDamping, Zero)
    THEN SolverSettings.SoftSwingDamping ELSE JointSettings.SoftSwingDamping

GetLinearDriveStiffness(SolverSettings, JointSettings) ==
    IF RGreater(SolverSettings.LinearDriveStiffness, Zero)
    THEN SolverSettings.LinearDriveStiffness ELSE JointSettings.LinearDriveStiffness

GetLinearDriveDamping(SolverSettings, JointSettings) ==
    IF RGreater(SolverSettings.LinearDriveDamping, Zero)
    THEN SolverSettings.LinearDriveDamping ELSE JointSettings.LinearDriveDamping

GetAngularTwistDriveStiffness(SolverSettings, JointSettings) ==
    IF JointSettings.bAngularTwistPositionDriveEnabled
    THEN IF RGreater(SolverSettings.AngularDriveStiffness, Zero)
         THEN SolverSettings.AngularDriveStiffness ELSE JointSettings.AngularDriveStiffness
    ELSE Zero

GetAngularTwistDriveDamping(SolverSettings, JointSettings) ==
    IF JointSettings.bAngularTwistVelocityDriveEnabled
    THEN IF RGreater(SolverSettings.AngularDriveDamping, Zero)
         THEN SolverSettings.AngularDriveDamping ELSE JointSettings.AngularDriveDamping
    ELSE Zero

GetAngularSwingDriveStiffness(SolverSettings, JointSettings) ==
    IF JointSettings.bAngularSwingPositionDriveEnabled
    THEN IF RGreater(SolverSettings.AngularDriveStiffness, Zero)
         THEN SolverSettings.AngularDriveStiffness ELSE JointSettings.AngularDriveStiffness
    ELSE Zero

GetAngularSwingDriveDamping(SolverSettings, JointSettings) ==
    IF JointSettings.bAngularSwingVelocityDriveEnabled
    THEN IF RGreater(SolverSettings.AngularDriveDamping, Zero)
         THEN SolverSettings.AngularDriveDamping ELSE JointSettings.AngularDriveDamping
    ELSE Zero

GetAngularSLerpDriveStiffness(SolverSettings, JointSettings) ==
    IF JointSettings.bAngularSLerpPositionDriveEnabled
    THEN IF RGreater(SolverSettings.AngularDriveStiffness, Zero)
         THEN SolverSettings.AngularDriveStiffness ELSE JointSettings.AngularDriveStiffness
    ELSE Zero

\* GetAngularSLerpDriveDamping gated by the position drive flag.
GetAngularSLerpDriveDamping_PositionFlag(SolverSettings, JointSettings) ==
    IF JointSettings.bAngularSLerpPositionDriveEnabled
    THEN IF RGreater(SolverSettings.AngularDriveDamping, Zero)
         THEN SolverSettings.AngularDriveDamping ELSE JointSettings.AngularDriveDamping
    ELSE Zero

GetAngularSLerpDriveDamping(SolverSettings, JointSettings) ==
    IF JointSettings.bAngularSLerpVelocityDriveEnabled
    THEN IF RGreater(SolverSettings.AngularDriveDamping, Zero)
         THEN SolverSettings.AngularDriveDamping ELSE JointSettings.AngularDriveDamping
    ELSE Zero

GetLinearProjection(SolverSettings, JointSettings) ==
    IF RGreater(SolverSettings.LinearProjection, Zero)
    THEN SolverSettings.LinearProjection ELSE JointSettings.LinearProjection

GetAngularProjection(SolverSettings, JointSettings) ==
    IF RGreater(SolverSettings.AngularProjection, Zero)
    THEN SolverSettings.AngularProjection ELSE JointSettings.AngularProjection

-----------------------------------------------------------------------------
(* Vectors (FVec3) and rotations (FRotation3).                             *)

Vec(x, y, z) == <<x, y, z>>

ZeroVector == Vec(Zero, Zero, Zero)

VAdd(a, b) == Vec(RAdd(a[1], b[1]), RAdd(a[2], b[2]), RAdd(a[3], b[3]))

VSub(a, b) == Vec(RSub(a[1], b[1]), RSub(a[2], b[2]), RSub(a[3], b[3]))

VScale(s, a) == Vec(RMul(s, a[1]), RMul(s, a[2]), RMul(s, a[3]))

VDiv(a, s) == Vec(RDiv(a[1], s), RDiv(a[2], s), RDiv(a[3], s))

DotProduct(a, b) == RAdd(RAdd(RMul(a[1], b[1]), RMul(a[2], b[2])), RMul(a[3], b[3]))

CrossProduct(a, b) ==
    Vec(RSub(RMul(a[2], b[3]), RMul(a[3], b[2])),
        RSub(RMul(a[3], b[1]), RMul(a[1], b[3])),
        RSub(RMul(a[1], b[2]), RMul(a[2], b[1])))

LCM(a, b) == (a \div GCD(a, b)) * b

\* The vector as integers over a common denominator, with the common factor
\* of the integers taken out: v = (Factor / Denominator) * Reduced.
CommonForm(v) ==
    LET d == LCM(LCM(Abs(v[1][2]), Abs(v[2][2])), Abs(v[3][2]))
        n == [i \in 1 .. 3 |-> v[i][1] * (d \div Abs(v[i][2]))]
        g == GCD(GCD(Abs(n[1]), Abs(n[2])), Abs(n[3]))
    IN  [Denominator |-> d, Factor |-> g,
         SquareSum |-> IF g = 0 THEN 0
                       ELSE (n[1] \div g) * (n[1] \div g) + (n[2] \div g) * (n[2] \div g)
                            + (n[3] \div g) * (n[3] \div g)]

RECURSIVE SqrtSearch(_, _, _)
SqrtSearch(n, lo, hi) ==
    IF lo >= hi THEN lo
    ELSE LET mid == (lo + hi + 1) \div 2
         IN  IF mid * mid <= n THEN SqrtSearch(n, mid, hi) ELSE SqrtSearch(n, lo, mid - 1)

\* Largest r with r * r <= n.
FloorSqrt(n) == SqrtSearch(n, 0, IF n < 46340 THEN n ELSE 46340)

\* The inputs of the model are chosen so that every length the code takes is
\* rational; this says so of one vector.
SizeIsExact(v) ==
    LET c == CommonForm(v) IN FloorSqrt(c.SquareSum) * FloorSqrt(c.SquareSum) = c.SquareSum

\* FVec3::Size(): Sqrt(X*X + Y*Y + Z*Z), taken over the common denominator.
Size(v) ==
    LET c == CommonForm(v) IN Rat(c.Factor * FloorSqrt(c.SquareSum), c.Denominator)

Quat(x, y, z, w) == [X |-> x, Y |-> y, Z |-> z, W |-> w]

\* FQuat::RotateVector, the operator FRotation3 * FVec3.
RotateVector(Q, V) ==
    LET q == Vec(Q.X, Q.Y, Q.Z)
        T == VScale(R(2), CrossProduct(q, V))
    IN  VAdd(VAdd(V, VScale(Q.W, T)), CrossProduct(q, T))

UnitAxis(a) == Vec(IF a = 0 THEN One ELSE Zero, IF a = 1 THEN One ELSE Zero,
                   IF a = 2 THEN One ELSE Zero)

-----------------------------------------------------------------------------
(* Linear limit shape resolver.                                            *)

MotionTypes == {"Free", "Limited", "Locked"}

\* GetSphereLimitedPositionError subtracting Radius * CX, not Radius * Dir.
GetSphereLimitedPositionError_Unnormalized(CX, Radius) ==
    LET CXLen == Size(CX)
    IN  IF RLess(CXLen, Radius) THEN ZeroVector
        ELSE IF RGreater(CXLen, SMALL_NUMBER) THEN VSub(CX, VScale(Radius, CX))
        ELSE CX

GetSphereLimitedPositionError(CX, Radius) ==
    LET CXLen == Size(CX)
    IN  IF RLess(CXLen, Radius) THEN ZeroVector
        ELSE IF RGreater(CXLen, SMALL_NUMBER)
             THEN LET Dir == VDiv(CX, CXLen) IN VSub(CX, VScale(Radius, Dir))
        ELSE CX

\* GetCylinderLimitedPositionError dropping the along-axis error of every
\* axis that is not Limited.
GetCylinderLimitedPositionError_DropsAxis(InCX, Axis, Limit, AxisMotion) ==
    LET CXAxis0    == VScale(DotProduct(InCX, Axis), Axis)
        CXPlane0   == VSub(InCX, CXAxis0)
        CXPlaneLen == Size(CXPlane0)
        CXAxis     == IF AxisMotion # "Limited" THEN ZeroVector ELSE CXAxis0
        CXPlane    == IF RLess(CXPlaneLen, Limit) THEN ZeroVector
                      ELSE IF RGreater(CXPlaneLen, KINDA_SMALL_NUMBER)
                           THEN LET Dir == VDiv(CXPlane0, CXPlaneLen)
                                IN  VSub(CXPlane0, VScale(Limit, Dir))
                      ELSE CXPlane0
    IN  VAdd(CXAxis, CXPlane)

GetCylinderLimitedPositionError(InCX, Axis, Limit, AxisMotion) ==
    LET CXAxis0    == VScale(DotProduct(InCX, Axis), Axis)
        CXPlane0   == VSub(InCX, CXAxis0)
        CXPlaneLen == Size(CXPlane0)
        CXAxis     == IF AxisMotion = "Free" THEN ZeroVector ELSE CXAxis0
        CXPlane    == IF RLess(CXPlaneLen, Limit) THEN ZeroVector
                      ELSE IF RGreater(CXPlaneLen, KINDA_SMALL_NUMBER)
                           THEN LET Dir == VDiv(CXPlane0, CXPlaneLen)
                                IN  VSub(CXPlane0, VScale(Limit, Dir))
                      ELSE CXPlane0
    IN  VAdd(CXAxis, CXPlane)

\* GetLineLimitedPositionError clipping a Free axis like a Limited one.
GetLineLimitedPositionError_FreeClipped(CX, Axis, Limit, AxisMotion) ==
    LET CXDist == DotProduct(CX, Axis)
    IN  IF RLess(RAbs(CXDist), Limit)
        THEN VSub(CX, VScale(CXDist, Axis))
        ELSE IF RGeq(CXDist, Limit) THEN VSub(CX, VScale(Limit, Axis))
        ELSE VAdd(CX, VScale(Limit, Axis))

\* GetLineLimitedPositionError subtracting the limit on the negative side too.
GetLineLimitedPositionError_OneSided(CX, Axis, Limit, AxisMotion) ==
    LET CXDist == DotProduct(CX, Axis)
    IN  IF AxisMotion = "Free" \/ RLess(RAbs(CXDist), Limit)
        THEN VSub(CX, VScale(CXDist, Axis))
        ELSE VSub(CX, VScale(Limit, Axis))

GetLineLimitedPositionError(CX, Axis, Limit, AxisMotion) ==
    LET CXDist == DotProduct(CX, Axis)
    IN  IF AxisMotion = "Free" \/ RLess(RAbs(CXDist), Limit)
        THEN VSub(CX, VScale(CXDist, Axis))
        ELSE IF RGeq(CXDist, Limit) THEN VSub(CX, VScale(Limit, Axis))
        ELSE VAdd(CX, VScale(Limit, Axis))

\* EffectiveMotion treating every Limited axis as soft.
EffectiveMotion_IgnoresSoftFlag(JointSettings) ==
    [a \in Axes |->
        IF JointSettings.LinearMotionTypes[a] = "Limited"
        THEN "Free" ELSE JointSettings.LinearMotionTypes[a]]

\* Soft limits are treated as free for the error calculation.
EffectiveMotion(JointSettings) ==
    [a \in Axes |->
        IF JointSettings.LinearMotionTypes[a] = "Limited" /\ JointSettings.bSoftLinearLimitsEnabled
        THEN "Free" ELSE JointSettings.LinearMotionTypes[a]]

\* One step of the line/square/cube branch, for axis a.
LineStep(JointSettings, R0, Motion, CX, a) ==
    IF Motion[a] # "Locked"
    THEN GetLineLimitedPositionError(CX, RotateVector(R0, UnitAxis(a)),
                                     JointSettings.LinearLimit, Motion[a])
    ELSE CX

GetLimitedPositionError(JointSettings, R0, InCX) ==
    LET Motion == EffectiveMotion(JointSettings)
    IN  IF Motion[0] = "Locked" /\ Motion[1] = "Locked" /\ Motion[2] = "Locked"
        THEN InCX
        ELSE IF Motion[0] = "Limited" /\ Motion[1] = "Limited" /\ Motion[2] = "Limited"
        THEN GetSphereLimitedPositionError(InCX, JointSettings.LinearLimit)
        ELSE IF Motion[1] = "Limited" /\ Motion[2] = "Limited"
        THEN GetCylinderLimitedPositionError(InCX, RotateVector(R0, UnitAxis(0)),
                                             JointSettings.LinearLimit, Motion[0])
        ELSE IF Motion[0] = "Limited" /\ Motion[2] = "Limited"
        THEN GetCylinderLimitedPositionError(InCX, RotateVector(R0, UnitAxis(1)),
                                             JointSettings.LinearLimit, Motion[1])
        ELSE IF Motion[0] = "Limited" /\ Motion[1] = "Limited"
        THEN GetCylinderLimitedPositionError(InCX, RotateVector(R0, UnitAxis(2)),
                                             JointSettings.LinearLimit, Motion[2])
        ELSE LET CX0 == LineStep(JointSettings, R0, Motion, InCX, 0)
                 CX1 == LineStep(JointSettings, R0, Motion, CX0, 1)
             IN  LineStep(JointSettings, R0, Motion, CX1, 2)

-----------------------------------------------------------------------------
(* Mass/inertia conditioner.                                               *)

VMin(v) == RMin(RMin(v[1], v[2]), v[3])

VMax(v) == RMax(RMax(v[1], v[2]), v[3])

\* FMath::Lerp
Lerp(A, B, Alpha) == RAdd(A, RMul(Alpha, RSub(B, A)))

\* ConditionInertia dividing the interpolation parameter by IMax instead of
\* the range IMax - IMin.
ConditionInertia_AlphaOverMax(InI, MaxRatio) ==
    LET IMin == VMin(InI)
        IMax == VMax(InI)
    IN  IF RGreater(MaxRatio, Zero) /\ RGreater(IMin, Zero) /\ RGreater(RDiv(IMax, IMin), MaxRatio)
        THEN LET MinIMin == RDiv(IMax, MaxRatio)
             IN  Vec(Lerp(MinIMin, IMax, RDiv(RSub(InI[1], IMin), IMax)),
                     Lerp(MinIMin, IMax, RDiv(RSub(InI[2], IMin), IMax)),
                     Lerp(MinIMin, IMax, RDiv(RSub(InI[3], IMin), IMax)))
        ELSE InI

ConditionInertia(InI, MaxRatio) ==
    LET IMin == VMin(InI)
        IMax == VMax(InI)
    IN  IF RGreater(MaxRatio, Zero) /\ RGreater(IMin, Zero) /\ RGreater(RDiv(IMax, IMin), MaxRatio)
        THEN LET MinIMin == RDiv(IMax, MaxRatio)
             IN  Vec(Lerp(MinIMin, IMax, RDiv(RSub(InI[1], IMin), RSub(IMax, IMin))),
                     Lerp(MinIMin, IMax, RDiv(RSub(InI[2], IMin), RSub(IMax, IMin))),
                     Lerp(MinIMin, IMax, RDiv(RSub(InI[3], IMin), RSub(IMax, IMin))))
        ELSE InI

\* ConditionParentInertia measuring the child by its smallest component.
ConditionParentInertia_ChildMin(IParent, IChild, MinRatio) ==
    LET IParentMax == VMax(IParent)
        IChildMax  == VMin(IChild)
    IN  IF /\ RGreater(MinRatio, Zero)
           /\ RGreater(IParentMax, Zero) /\ RGreater(IChildMax, Zero)
           /\ RLess(RDiv(IParentMax, IChildMax), MinRatio)
        THEN LET Multiplier == RDiv(MinRatio, RDiv(IParentMax, IChildMax))
             IN  VScale(Multiplier, IParent)
        ELSE IParent

ConditionParentInertia(IParent, IChild, MinRatio) ==
    LET IParentMax == VMax(IParent)
        IChildMax  == VMax(IChild)
    IN  IF /\ RGreater(MinRatio, Zero)
           /\ RGreater(IParentMax, Zero) /\ RGreater(IChildMax, Zero)
           /\ RLess(RDiv(IParentMax, IChildMax), MinRatio)
        THEN LET Multiplier == RDiv(MinRatio, RDiv(IParentMax, IChildMax))
             IN  VScale(Multiplier, IParent)
        ELSE IParent

ConditionParentMass(MParent, MChild, MinRatio) ==
    IF /\ RGreater(MinRatio, Zero) /\ RGreater(MParent, Zero) /\ RGreater(MChild, Zero)
       /\ RLess(RDiv(MParent, MChild), MinRatio)
    THEN LET Multiplier == RDiv(MinRatio, RDiv(MParent, MChild))
         IN  RMul(MParent, Multiplier)
    ELSE MParent

\* FVec3(1 / V.X, 1 / V.Y, 1 / V.Z)
VInverse(V) == Vec(RDiv(One, V[1]), RDiv(One, V[2]), RDiv(One, V[3]))

\* ConditionInverseMassAndInertia mapping back to inverses without testing
\* whether the body is dynamic.
ConditionInverseMassAndInertia_AlwaysMapsBack(InOutInvMParent, InOutInvMChild, InOutInvIParent, InOutInvIChild, MinParentMassRatio, MaxInertiaRatio) ==
    LET ParentDynamic == RGreater(InOutInvMParent, Zero)
        ChildDynamic  == RGreater(InOutInvMChild, Zero)
        MParent0 == IF ParentDynamic THEN RDiv(One, InOutInvMParent) ELSE Zero
        IParent0 == IF ParentDynamic
                    THEN ConditionInertia(VInverse(InOutInvIParent), MaxInertiaRatio)
                    ELSE ZeroVector
        MChild   == IF ChildDynamic THEN RDiv(One, InOutInvMChild) ELSE Zero
        IChild   == IF ChildDynamic
                    THEN ConditionInertia(VInverse(InOutInvIChild), MaxInertiaRatio)
                    ELSE ZeroVector
        MParent  == IF ParentDynamic /\ ChildDynamic
                    THEN ConditionParentMass(MParent0, MChild, MinParentMassRatio)
                    ELSE MParent0
        IParent  == IF ParentDynamic /\ ChildDynamic
                    THEN ConditionParentInertia(IParent0, IChild, MinParentMassRatio)
                    ELSE IParent0
    IN  [InvMParent |-> RDiv(One, MParent), InvIParent |-> VInverse(IParent),
         InvMChild  |-> RDiv(One, MChild), InvIChild |-> VInverse(IChild)]

\* The four in-out parameters after the call.
ConditionInverseMassAndInertia(InOutInvMParent, InOutInvMChild, InOutInvIParent, InOutInvIChild, MinParentMassRatio, MaxInertiaRatio) ==
    LET ParentDynamic == RGreater(InOutInvMParent, Zero)
        ChildDynamic  == RGreater(InOutInvMChild, Zero)
        MParent0 == IF ParentDynamic THEN RDiv(One, InOutInvMParent) ELSE Zero
        IParent0 == IF ParentDynamic
                    THEN ConditionInertia(VInverse(InOutInvIParent), MaxInertiaRatio)
                    ELSE ZeroVector
        MChild   == IF ChildDynamic THEN RDiv(One, InOutInvMChild) ELSE Zero
        IChild   == IF ChildDynamic
                    THEN ConditionInertia(VInverse(InOutInvIChild), MaxInertiaRatio)
                    ELSE ZeroVector
        MParent  == IF ParentDynamic /\ ChildDynamic
                    THEN ConditionParentMass(MParent0, MChild, MinParentMassRatio)
                    ELSE MParent0
        IParent  == IF ParentDynamic /\ ChildDynamic
                    THEN ConditionParentInertia(IParent0, IChild, MinParentMassRatio)
                    ELSE IParent0
    IN  [InvMParent |-> IF ParentDynamic THEN RDiv(One, MParent) ELSE InOutInvMParent,
         InvIParent |-> IF ParentDynamic THEN VInverse(IParent) ELSE InOutInvIParent,
         InvMChild  |-> IF ChildDynamic THEN RDiv(One, MChild) ELSE InOutInvMChild,
         InvIChild  |-> IF ChildDynamic THEN VInverse(IChild) ELSE InOutInvIChild]

-----------------------------------------------------------------------------
(* Twist angle.                                                            *)
(*                                                                         *)
(* Angles are integers in units of pi / (2 * HalfPiSteps).  A twist        *)
(* quaternion has only its W and X components set; it is kept in polar     *)
(* form: (W, X) = Magnitude * (cos Phase, sin Phase), Phase being the half *)
(* angle of the rotation, in 0 .. 2 pi (exclusive).                        *)

\* Number of angle units in pi / 2.
HalfPiSteps == 8

PI == 2 * HalfPiSteps

TwistQuat(m, p) == [Magnitude |-> m, Phase |-> p]

\* FQuat::GetNormalized
GetNormalized(Q) == [Q EXCEPT !.Magnitude = 1]

\* FMath::Acos of the W component of a unit twist quaternion, in [0, pi].
AcosW(Q) == IF Q.Phase <= PI THEN Q.Phase ELSE 2 * PI - Q.Phase

\* FQuat::GetAngle: 2 * Acos(W)
GetAngle(Q) == 2 * AcosW(Q)

\* Whether the X component (Magnitude * sin Phase) is negative.
XIsNegative(Q) == Q.Phase > PI

\* GetTwistAngle without the remap of angles above pi.
GetTwistAngle_NoWrap(InTwist) ==
    LET Twist  == GetNormalized(InTwist)
        Angle0 == GetAngle(Twist)
    IN  IF XIsNegative(Twist) THEN -Angle0 ELSE Angle0

GetTwistAngle(InTwist) ==
    LET Twist  == GetNormalized(InTwist)
        Angle0 == GetAngle(Twist)
        Angle1 == IF Angle0 > PI THEN Angle0 - 2 * PI ELSE Angle0
    IN  IF XIsNegative(Twist) THEN -Angle1 ELSE Angle1

-----------------------------------------------------------------------------
(* The caller.                                                             *)

NoValue == <<>>

Init == pc = "idle" /\ in = NoValue /\ out = NoValue

\* One action per settings getter: a call on a pair of settings structures.
CallGetLinearStiffness ==
    /\ pc = "idle"
    /\ \E SolverSettings \in SolverSettingsSet, JointSettings \in ResolverJointSettingsSet :
          /\ pc' = "GetLinearStiffness"
          /\ in' = [SolverSettings |-> SolverSettings, JointSettings |-> JointSettings]
          /\ out' = GetLinearStiffness(SolverSettings, JointSettings)

CallGetSoftLinearStiffness ==
    /\ pc = "idle"
    /\ \E SolverSettings \in SolverSettingsSet, JointSettings \in ResolverJointSettingsSet :
          /\ pc' = "GetSoftLinearStiffness"
          /\ in' = [SolverSettings |-> SolverSettings, JointSettings |-> JointSettings]
          /\ out' = GetSoftLinearStiffness(SolverSettings, JointSettings)

CallGetSoftLinearDamping ==
    /\ pc = "idle"
    /\ \E SolverSettings \in SolverSettingsSet, JointSettings \in ResolverJointSettingsSet :
          /\ pc' = "GetSoftLinearDamping"
          /\ in' = [SolverSettings |-> SolverSettings, JointSettings |-> JointSettings]
          /\ out' = GetSoftLinearDamping(SolverSettings, JointSettings)

CallGetTwistStiffness ==
    /\ pc = "idle"
    /\ \E SolverSettings \in SolverSettingsSet, JointSettings \in ResolverJointSettingsSet :
          /\ pc' = "GetTwistStiffness"
          /\ in' = [SolverSettings |-> SolverSettings, JointSettings |-> JointSettings]
          /\ out' = GetTwistStiffness(SolverSettings, JointSettings)

CallGetSoftTwistStiffness ==
    /\ pc = "idle"
    /\ \E SolverSettings \in SolverSettingsSet, JointSettings \in ResolverJointSettingsSet :
          /\ pc' = "GetSoftTwistStiffness"
          /\ in' = [SolverSettings |-> SolverSettings, JointSettings |-> JointSettings]
          /\ out' = GetSoftTwistStiffness(SolverSettings, JointSettings)

CallGetSoftTwistDamping ==
    /\ pc = "idle"
    /\ \E SolverSettings \in SolverSettingsSet, JointSettings \in ResolverJointSettingsSet :
          /\ pc' = "GetSoftTwistDamping"
          /\ in' = [SolverSettings |-> SolverSettings, JointSettings |-> JointSettings]
          /\ out' = GetSoftTwistDamping(SolverSettings, JointSettings)

CallGetSwingStiffness ==
    /\ pc = "idle"
    /\ \E SolverSettings \in SolverSettingsSet, JointSettings \in ResolverJointSettingsSet :
          /\ pc' = "GetSwingStiffness"
          /\ in' = [SolverSettings |-> SolverSettings, JointSettings |-> JointSettings]
          /\ out' = GetSwingStiffness(SolverSettings, JointSettings)

CallGetSoftSwingStiffness ==
    /\ pc = "idle"
    /\ \E SolverSettings \in SolverSettingsSet, JointSettings \in ResolverJointSettingsSet :
          /\ pc' = "GetSoftSwingStiffness"
          /\ in' = [SolverSettings |-> SolverSettings, JointSettings |-> JointSettings]
          /\ out' = GetSoftSwingStiffness(SolverSettings, JointSettings)

CallGetSoftSwingDamping ==
    /\ pc = "idle"
    /\ \E SolverSettings \in SolverSettingsSet, JointSettings \in ResolverJointSettingsSet :
          /\ pc' = "GetSoftSwingDamping"
          /\ in' = [SolverSettings |-> SolverSettings, JointSettings |-> JointSettings]
          /\ out' = GetSoftSwingDamping(SolverSettings, JointSettings)

CallGetLinearDriveStiffness ==
    /\ pc = "idle"
    /\ \E SolverSettings \in SolverSettingsSet, JointSettings \in ResolverJointSettingsSet :
          /\ pc' = "GetLinearDriveStiffness"
          /\ in' = [SolverSettings |-> SolverSettings, JointSettings |-> JointSettings]
          /\ out' = GetLinearDriveStiffness(SolverSettings, JointSettings)

CallGetLinearDriveDamping ==
    /\ pc = "idle"
    /\ \E SolverSettings \in SolverSettingsSet, JointSettings \in ResolverJointSettingsSet :
          /\ pc' = "GetLinearDriveDamping"
          /\ in' = [SolverSettings |-> SolverSettings, JointSettings |-> JointSettings]
          /\ out' = GetLinearDriveDamping(SolverSettings, JointSettings)

CallGetAngularTwistDriveStiffness ==
    /\ pc = "idle"
    /\ \E SolverSettings \in SolverSettingsSet, JointSettings \in ResolverJointSettingsSet :
          /\ pc' = "GetAngularTwistDriveStiffness"
          /\ in' = [SolverSettings |-> SolverSettings, JointSettings |-> JointSettings]
          /\ out' = GetAngularTwistDriveStiffness(SolverSettings, JointSettings)

CallGetAngularTwistDriveDamping ==
    /\ pc = "idle"
    /\ \E SolverSettings \in SolverSettingsSet, JointSettings \in ResolverJointSettingsSet :
          /\ pc' = "GetAngularTwistDriveDamping"
          /\ in' = [SolverSettings |-> SolverSettings, JointSettings |-> JointSettings]
          /\ out' = GetAngularTwistDriveDamping(SolverSettings, JointSettings)

CallGetAngularSwingDriveStiffness ==
    /\ pc = "idle"
    /\ \E SolverSettings \in SolverSettingsSet, JointSettings \in ResolverJointSettingsSet :
          /\ pc' = "GetAngularSwingDriveStiffness"
          /\ in' = [SolverSettings |-> SolverSettings, JointSettings |-> JointSettings]
          /\ out' = GetAngularSwingDriveStiffness(SolverSettings, JointSettings)

CallGetAngularSwingDriveDamping ==
    /\ pc = "idle"
    /\ \E SolverSettings \in SolverSettingsSet, JointSettings \in ResolverJointSettingsSet :
          /\ pc' = "GetAngularSwingDriveDamping"
          /\ in' = [SolverSettings |-> SolverSettings, JointSettings |-> JointSettings]
          /\ out' = GetAngularSwingDriveDamping(SolverSettings, JointSettings)

CallGetAngularSLerpDriveStiffness ==
    /\ pc = "idle"
    /\ \E SolverSettings \in SolverSettingsSet, JointSettings \in ResolverJointSettingsSet :
          /\ pc' = "GetAngularSLerpDriveStiffness"
          /\ in' = [SolverSettings |-> SolverSettings, JointSettings |-> JointSettings]
          /\ out' = GetAngularSLerpDriveStiffness(SolverSettings, JointSettings)

CallGetAngularSLerpDriveDamping ==
    /\ pc = "idle"
    /\ \E SolverSettings \in SolverSettingsSet, JointSettings \in ResolverJointSettingsSet :
          /\ pc' = "GetAngularSLerpDriveDamping"
          /\ in' = [SolverSettings |-> SolverSettings, JointSettings |-> JointSettings]
          /\ out' = GetAngularSLerpDriveDamping(SolverSettings, JointSettings)

CallGetLinearProjection ==
    /\ pc = "idle"
    /\ \E SolverSettings \in SolverSettingsSet, JointSettings \in ResolverJointSettingsSet :
          /\ pc' = "GetLinearProjection"
          /\ in' = [SolverSettings |-> SolverSettings, JointSettings |-> JointSettings]
          /\ out' = GetLinearProjection(SolverSettings, JointSettings)

CallGetAngularProjection ==
    /\ pc = "idle"
    /\ \E SolverSettings \in SolverSettingsSet, JointSettings \in ResolverJointSettingsSet :
          /\ pc' = "GetAngularProjection"
          /\ in' = [SolverSettings |-> SolverSettings, JointSettings |-> JointSettings]
          /\ out' = GetAngularProjection(SolverSettings, JointSettings)

\* The call returns; its value has been consumed.
Return == pc # "idle" /\ pc' = "idle" /\ in' = NoValue /\ out' = NoValue

ResolverNext ==
    \/ CallGetLinearStiffness
    \/ CallGetSoftLinearStiffness
    \/ CallGetSoftLinearDamping
    \/ CallGetTwistStiffness
    \/ CallGetSoftTwistStiffness
    \/ CallGetSoftTwistDamping
    \/ CallGetSwingStiffness
    \/ CallGetSoftSwingStiffness
    \/ CallGetSoftSwingDamping
    \/ CallGetLinearDriveStiffness
    \/ CallGetLinearDriveDamping
    \/ CallGetAngularTwistDriveStiffness
    \/ CallGetAngularTwistDriveDamping
    \/ CallGetAngularSwingDriveStiffness
    \/ CallGetAngularSwingDriveDamping
    \/ CallGetAngularSLerpDriveStiffness
    \/ CallGetAngularSLerpDriveDamping
    \/ CallGetLinearProjection
    \/ CallGetAngularProjection
    \/ Return

ResolverSpec == Init /\ [][ResolverNext]_vars

-----------------------------------------------------------------------------
(* Calls of the linear limit shape resolver.                               *)

\* Largest hard limit distance offered.
MaxLimit == 5

\* Limit distances: a negative one, and 0 .. MaxLimit.
LimitSet == {R(n) : n \in -1 .. MaxLimit}

\* Parent frames: identity, 120 degrees about (1,1,1), a rotation about X
\* and one that tilts all three axes.  All are unit quaternions.
RotationSet ==
    {Quat(Zero, Zero, Zero, One),
     Quat(<<1, 2>>, <<1, 2>>, <<1, 2>>, <<1, 2>>),
     Quat(<<4, 5>>, Zero, Zero, <<3, 5>>),
     Quat(<<2, 3>>, <<2, 3>>, Zero, <<1, 3>>)}

\* Positional errors in the parent frame (the world error is R0 * local).
LocalErrorSet ==
    {Vec(R(x[1]), R(x[2]), R(x[3])) :
        x \in {<<0, 0, 0>>, <<3, 0, 0>>, <<0, -3, 0>>, <<0, 0, 2>>,
               <<3, 4, 0>>, <<-3, 0, 4>>, <<0, 3, -4>>,
               <<3, 4, 12>>, <<12, -3, 4>>, <<-4, 12, 3>>,
               <<1, 2, 2>>, <<-2, 1, -2>>}}

\* Errors and radii around the degenerate-length threshold SMALL_NUMBER:
\* lengths 2e-8, 8e-9 and 4e-9, radii 0 and 5e-9.
TinyErrorSet ==
    {Vec(<<1, 50000000>>, Zero, Zero), Vec(Zero, <<-1, 125000000>>, Zero),
     Vec(Zero, Zero, <<1, 250000000>>)}

TinyRadiusSet == {Zero, <<1, 200000000>>}

\* The vector whose length GetLimitedPositionError takes on these inputs.
MeasuredVector(JointSettings, R0, InCX) ==
    LET Motion == EffectiveMotion(JointSettings)
        Plane(a) == VSub(InCX, VScale(DotProduct(InCX, RotateVector(R0, UnitAxis(a))),
                                      RotateVector(R0, UnitAxis(a))))
    IN  IF Motion[0] = "Limited" /\ Motion[1] = "Limited" /\ Motion[2] = "Limited" THEN InCX
        ELSE IF Motion[1] = "Limited" /\ Motion[2] = "Limited" THEN Plane(0)
        ELSE IF Motion[0] = "Limited" /\ Motion[2] = "Limited" THEN Plane(1)
        ELSE IF Motion[0] = "Limited" /\ Motion[1] = "Limited" THEN Plane(2)
        ELSE ZeroVector

CallGetLimitedPositionError ==
    /\ pc = "idle"
    /\ \E motion \in [Axes -> MotionTypes], soft \in BOOLEAN, limit \in LimitSet,
          R0 \in RotationSet, local \in LocalErrorSet :
          LET js == JointSettingsOf("two", {}, motion, soft, limit)
              CX == RotateVector(R0, local)
          IN  /\ SizeIsExact(MeasuredVector(js, R0, CX))
              /\ pc' = "GetLimitedPositionError"
              /\ in' = [JointSettings |-> js, R0 |-> R0, CX |-> CX]
              /\ out' = GetLimitedPositionError(js, R0, CX)

CallGetSphereLimitedPositionError ==
    /\ pc = "idle"
    /\ \/ \E R0 \in RotationSet, local \in LocalErrorSet, Radius \in LimitSet :
             LET CX == RotateVector(R0, local)
             IN  /\ SizeIsExact(CX)
                 /\ pc' = "GetSphereLimitedPositionError"
                 /\ in' = [CX |-> CX, Radius |-> Radius]
                 /\ out' = GetSphereLimitedPositionError(CX, Radius)
       \/ \E CX \in TinyErrorSet, Radius \in TinyRadiusSet :
             /\ pc' = "GetSphereLimitedPositionError"
             /\ in' = [CX |-> CX, Radius |-> Radius]
             /\ out' = GetSphereLimitedPositionError(CX, Radius)

CallGetCylinderLimitedPositionError ==
    /\ pc = "idle"
    /\ \E R0 \in RotationSet, local \in LocalErrorSet, a \in Axes, Limit \in LimitSet,
          AxisMotion \in {"Free", "Locked"} :
          LET CX   == RotateVector(R0, local)
              Axis == RotateVector(R0, UnitAxis(a))
          IN  /\ SizeIsExact(VSub(CX, VScale(DotProduct(CX, Axis), Axis)))
              /\ pc' = "GetCylinderLimitedPositionError"
              /\ in' = [CX |-> CX, Axis |-> Axis, Limit |-> Limit, AxisMotion |-> AxisMotion]
              /\ out' = GetCylinderLimitedPositionError(CX, Axis, Limit, AxisMotion)

CallGetLineLimitedPositionError ==
    /\ pc = "idle"
    /\ \E R0 \in RotationSet, local \in LocalErrorSet, a \in Axes, Limit \in LimitSet,
          AxisMotion \in {"Free", "Limited"} :
          LET CX   == RotateVector(R0, local)
              Axis == RotateVector(R0, UnitAxis(a))
          IN  /\ pc' = "GetLineLimitedPositionError"
              /\ in' = [CX |-> CX, Axis |-> Axis, Limit |-> Limit, AxisMotion |-> AxisMotion]
              /\ out' = GetLineLimitedPositionError(CX, Axis, Limit, AxisMotion)

LinearNext ==
    \/ CallGetLimitedPositionError
    \/ CallGetSphereLimitedPositionError
    \/ CallGetCylinderLimitedPositionError
    \/ CallGetLineLimitedPositionError
    \/ Return

LinearSpec == Init /\ [][LinearNext]_vars

-----------------------------------------------------------------------------
(* Calls of the mass/inertia conditioner.                                  *)

\* Largest whole ratio offered as a configured bound.
MaxRatio == 3

\* Configured ratios: disabled (<= 0), below one, one, and above.
RatioSet == {R(-1), Zero, <<1, 2>>, One, <<3, 2>>, R(10)} \cup {R(n) : n \in 2 .. MaxRatio}

\* Largest small inertia component offered.
MaxComponent == 3

ComponentSet == {R(n) : n \in -1 .. MaxComponent} \cup {R(100)}

DirectInertiaSet == {Vec(x, y, z) : x \in ComponentSet, y \in ComponentSet, z \in ComponentSet}

CallConditionInertia ==
    /\ pc = "idle"
    /\ \E InI \in DirectInertiaSet, Ratio \in RatioSet :
          /\ pc' = "ConditionInertia"
          /\ in' = [InI |-> InI, MaxRatio |-> Ratio]
          /\ out' = ConditionInertia(InI, Ratio)

PairInertiaSet ==
    {Vec(R(1), R(1), R(1)), Vec(R(1), R(1), R(100)), Vec(R(2), R(4), R(50)),
     Vec(R(100), R(50), R(100)), Vec(Zero, Zero, Zero)}

CallConditionParentInertia ==
    /\ pc = "idle"
    /\ \E IParent \in PairInertiaSet, IChild \in PairInertiaSet, MinRatio \in RatioSet :
          /\ pc' = "ConditionParentInertia"
          /\ in' = [IParent |-> IParent, IChild |-> IChild, MinRatio |-> MinRatio]
          /\ out' = ConditionParentInertia(IParent, IChild, MinRatio)

MassSet == {R(-1), Zero, <<1, 2>>, One, R(2), R(50), R(100)}

CallConditionParentMass ==
    /\ pc = "idle"
    /\ \E MParent \in MassSet, MChild \in MassSet, MinRatio \in RatioSet :
          /\ pc' = "ConditionParentMass"
          /\ in' = [MParent |-> MParent, MChild |-> MChild, MinRatio |-> MinRatio]
          /\ out' = ConditionParentMass(MParent, MChild, MinRatio)

\* Bodies as (inverse mass, inverse principal inertia).  A dynamic body has a
\* positive inverse mass and positive inverse inertia components; fixed and
\* kinematic bodies have a non-positive inverse mass.
DynamicBodySet ==
    {[InvM |-> m, InvI |-> i] :
        m \in {<<1, 100>>, <<1, 2>>, One, R(2)},
        i \in {Vec(One, One, One), Vec(One, One, <<1, 100>>),
               Vec(<<1, 2>>, <<1, 4>>, <<1, 50>>), Vec(<<1, 400>>, <<1, 400>>, <<1, 400>>)}}

StaticBodySet ==
    {[InvM |-> Zero, InvI |-> ZeroVector], [InvM |-> Zero, InvI |-> Vec(One, One, <<1, 100>>)],
     [InvM |-> R(-1), InvI |-> Vec(One, One, One)]}

\* A dynamic body that cannot turn about its Z axis (zero inverse inertia,
\* that is infinite inertia, about it), one that cannot turn at all, and one
\* whose zero inverse inertia about X is a negative zero.
LockedAxisBodySet ==
    {[InvM |-> One, InvI |-> Vec(One, One, Zero)], [InvM |-> One, InvI |-> ZeroVector],
     [InvM |-> One, InvI |-> Vec(NegZero, One, One)]}

BodySet == DynamicBodySet \cup StaticBodySet \cup LockedAxisBodySet

CallConditionInverseMassAndInertia ==
    /\ pc = "idle"
    /\ \E Parent \in BodySet, Child \in BodySet, MinParentMassRatio \in RatioSet,
          MaxInertiaRatio \in RatioSet :
          /\ pc' = "ConditionInverseMassAndInertia"
          /\ in' = [InvMParent |-> Parent.InvM, InvIParent |-> Parent.InvI,
                    InvMChild |-> Child.InvM, InvIChild |-> Child.InvI,
                    MinParentMassRatio |-> MinParentMassRatio,
                    MaxInertiaRatio |-> MaxInertiaRatio]
          /\ out' = ConditionInverseMassAndInertia(Parent.InvM, Child.InvM, Parent.InvI,
                                                   Child.InvI, MinParentMassRatio,
                                                   MaxInertiaRatio)

MassNext ==
    \/ CallConditionInertia
    \/ CallConditionParentInertia
    \/ CallConditionParentMass
    \/ CallConditionInverseMassAndInertia
    \/ Return

MassSpec == Init /\ [][MassNext]_vars

-----------------------------------------------------------------------------
(* Calls of the twist angle extractor.                                     *)

\* Largest magnitude of an un-normalized twist quaternion.
MaxMagnitude == 4

TwistSet == {TwistQuat(m, p) : m \in 1 .. MaxMagnitude, p \in 0 .. 2 * PI - 1}

CallGetTwistAngle ==
    /\ pc = "idle"
    /\ \E InTwist \in TwistSet :
          /\ pc' = "GetTwistAngle"
          /\ in' = InTwist
          /\ out' = GetTwistAngle(InTwist)

TwistNext ==
    \/ CallGetTwistAngle
    \/ Return

TwistSpec == Init /\ [][TwistNext]_vars

-----------------------------------------------------------------------------
(* Every call the caller can make.                                         *)

Next ==
    \/ ResolverNext
    \/ LinearNext
    \/ MassNext
    \/ TwistNext

Spec == Init /\ [][Next]_vars

-----------------------------------------------------------------------------
(* Properties of the settings resolver.                                    *)

\* The coefficient each getter without a drive gate resolves.
UngatedCoefficient ==
    [GetLinearStiffness |-> "Stiffness", GetSoftLinearStiffness |-> "SoftLinearStiffness",
     GetSoftLinearDamping |-> "SoftLinearDamping", GetTwistStiffness |-> "Stiffness",
     GetSoftTwistStiffness |-> "SoftTwistStiffness", GetSoftTwistDamping |-> "SoftTwistDamping",
     GetSwingStiffness |-> "Stiffness", GetSoftSwingStiffness |-> "SoftSwingStiffness",
     GetSoftSwingDamping |-> "SoftSwingDamping",
     GetLinearDriveStiffness |-> "LinearDriveStiffness",
     GetLinearDriveDamping |-> "LinearDriveDamping",
     GetLinearProjection |-> "LinearProjection", GetAngularProjection |-> "AngularProjection"]

\* The result v resolves solver value s against joint value j.
OverrideIfPositive(s, j, v) ==
    /\ RGreater(s, Zero) => v = s
    /\ RLeq(s, Zero) => v = j

\* C1: every getter without a drive gate returns the solver value of its
\* coefficient when that value is > 0 and the joint value otherwise.
C1_OverrideIfPositive ==
    \A g \in DOMAIN UngatedCoefficient :
        pc = g => OverrideIfPositive(in.SolverSettings[UngatedCoefficient[g]],
                                     in.JointSettings[UngatedCoefficient[g]], out)

\* A non-positive solver value gives way to a joint value that differs from
\* the joint's other coefficients.
C1_Witness ==
    /\ pc = "GetSoftSwingDamping"
    /\ in.SolverSettings.SoftSwingDamping = R(-7)
    /\ in.JointSettings.SoftSwingDamping = R(107)
    /\ in.JointSettings.SoftSwingStiffness = R(106)
    /\ out = R(107)

\* The drive getters, the enable flag each one is claimed to be gated by and
\* the coefficient it resolves.
AngularDriveGate ==
    [GetAngularTwistDriveStiffness |-> "bAngularTwistPositionDriveEnabled",
     GetAngularTwistDriveDamping   |-> "bAngularTwistVelocityDriveEnabled",
     GetAngularSwingDriveStiffness |-> "bAngularSwingPositionDriveEnabled",
     GetAngularSwingDriveDamping   |-> "bAngularSwingVelocityDriveEnabled",
     GetAngularSLerpDriveStiffness |-> "bAngularSLerpPositionDriveEnabled",
     GetAngularSLerpDriveDamping   |-> "bAngularSLerpVelocityDriveEnabled"]

LinearDriveGate ==
    [GetLinearDriveStiffness |-> "bLinearPositionDriveEnabled",
     GetLinearDriveDamping   |-> "bLinearVelocityDriveEnabled"]

DriveCoefficient ==
    [GetLinearDriveStiffness |-> "LinearDriveStiffness",
     GetLinearDriveDamping   |-> "LinearDriveDamping",
     GetAngularTwistDriveStiffness |-> "AngularDriveStiffness",
     GetAngularTwistDriveDamping   |-> "AngularDriveDamping",
     GetAngularSwingDriveStiffness |-> "AngularDriveStiffness",
     GetAngularSwingDriveDamping   |-> "AngularDriveDamping",
     GetAngularSLerpDriveStiffness |-> "AngularDriveStiffness",
     GetAngularSLerpDriveDamping   |-> "AngularDriveDamping"]

\* A per-axis flag counts as enabled when it is enabled for some axis.
FlagEnabled(JointSettings, f) ==
    IF f \in LinearDriveFlags THEN \E a \in Axes : JointSettings[f][a] ELSE JointSettings[f]

\* The call in progress is getter g, gated by flag f, and obeys the gate.
Gated(g, f) ==
    pc = g =>
        IF FlagEnabled(in.JointSettings, f)
        THEN OverrideIfPositive(in.SolverSettings[DriveCoefficient[g]],
                                in.JointSettings[DriveCoefficient[g]], out)
        ELSE out = Zero

\* C2 as claimed: every drive getter, the linear ones included, returns 0
\* when its enable flag is false and resolves by override-if-positive otherwise.
C2_AllDriveGettersGated ==
    /\ \A g \in DOMAIN AngularDriveGate : Gated(g, AngularDriveGate[g])
    /\ \A g \in DOMAIN LinearDriveGate : Gated(g, LinearDriveGate[g])

\* C2 as amended: the angular drive getters (twist, swing, slerp) return 0
\* when their enable flag is false and resolve by override-if-positive
\* otherwise; the linear drive getters resolve by override-if-positive
\* whatever the linear drive flags are.
C2_AngularDriveGettersGated ==
    /\ \A g \in DOMAIN AngularDriveGate : Gated(g, AngularDriveGate[g])
    /\ \A g \in DOMAIN LinearDriveGate :
          pc = g => OverrideIfPositive(in.SolverSettings[DriveCoefficient[g]],
                                       in.JointSettings[DriveCoefficient[g]], out)

\* A disabled velocity drive yields 0 although the position drive of the same
\* sub-type is enabled and both the solver and the joint value are positive.
C2_Witness ==
    /\ pc = "GetAngularSLerpDriveDamping"
    /\ ~in.JointSettings.bAngularSLerpVelocityDriveEnabled
    /\ in.JointSettings.bAngularSLerpPositionDriveEnabled
    /\ RGreater(in.SolverSettings.AngularDriveDamping, Zero)
    /\ RGreater(in.JointSettings.AngularDriveDamping, Zero)
    /\ out = Zero

-----------------------------------------------------------------------------
(* Properties of the linear limit shape resolver.                          *)

\* a == b as the code's FReal comparison decides it: +0 and -0 are the same
\* number, and NaN is the same as nothing.
Same(a, b) == RLeq(a, b) /\ RLeq(b, a)

SameVector(v, w) == \A i \in 1 .. 3 : Same(v[i], w[i])

\* The world direction of the parent's axis a in the call in progress.
WorldAxis(a) == RotateVector(in.R0, UnitAxis(a))

InLimitedPositionError == pc = "GetLimitedPositionError"

\* C3: along every axis authored Locked the result of GetLimitedPositionError
\* has the same component as CX, and with three Locked axes it is CX.
C3_LockedAxesTransmit ==
    InLimitedPositionError =>
        /\ \A a \in Axes :
              in.JointSettings.LinearMotionTypes[a] = "Locked" =>
                  Same(DotProduct(out, WorldAxis(a)), DotProduct(in.CX, WorldAxis(a)))
        /\ in.JointSettings.LinearMotionTypes = AllLocked => out = in.CX

\* The cylinder about a Locked X axis clips the in-plane error and keeps a
\* non-zero error along the axis.
C3_Witness ==
    /\ InLimitedPositionError
    /\ in.JointSettings.LinearMotionTypes = [a \in Axes |-> IF a = 0 THEN "Locked" ELSE "Limited"]
    /\ ~in.JointSettings.bSoftLinearLimitsEnabled
    /\ ~Same(DotProduct(in.CX, WorldAxis(0)), Zero)
    /\ ~SameVector(out, in.CX)
    /\ in.R0.Y # Zero

\* C4: along every axis that is effectively Free (authored Free, or authored
\* Limited with soft linear limits enabled) the result of
\* GetLimitedPositionError has no component.
C4_FreeAxesTransmitNothing ==
    InLimitedPositionError =>
        \A a \in Axes :
            (\/ in.JointSettings.LinearMotionTypes[a] = "Free"
             \/ /\ in.JointSettings.LinearMotionTypes[a] = "Limited"
                /\ in.JointSettings.bSoftLinearLimitsEnabled)
            => Same(DotProduct(out, WorldAxis(a)), Zero)

\* The cylinder about a Free Y axis drops a non-zero error along the axis and
\* still reports an in-plane violation.
C4_Witness ==
    /\ InLimitedPositionError
    /\ in.JointSettings.LinearMotionTypes = [a \in Axes |-> IF a = 1 THEN "Free" ELSE "Limited"]
    /\ ~in.JointSettings.bSoftLinearLimitsEnabled
    /\ ~Same(DotProduct(in.CX, WorldAxis(1)), Zero)
    /\ ~SameVector(out, ZeroVector)
    /\ in.R0.Y # Zero

AllLimited == [a \in Axes |-> "Limited"]

\* C5 as claimed: with three Limited axes and a zero limit the result is CX,
\* for every joint settings value.
C5_ZeroLimitIsLocked ==
    (/\ InLimitedPositionError
     /\ in.JointSettings.LinearMotionTypes = AllLimited
     /\ in.JointSettings.LinearLimit = Zero)
    => out = in.CX

\* C5 as amended: with three Limited axes, soft linear limits disabled and a
\* zero limit, the result is CX.
C5_HardZeroLimitIsLocked ==
    (/\ InLimitedPositionError
     /\ in.JointSettings.LinearMotionTypes = AllLimited
     /\ ~in.JointSettings.bSoftLinearLimitsEnabled
     /\ in.JointSettings.LinearLimit = Zero)
    => out = in.CX

C5_Witness ==
    /\ InLimitedPositionError
    /\ in.JointSettings.LinearMotionTypes = AllLimited
    /\ ~in.JointSettings.bSoftLinearLimitsEnabled
    /\ in.JointSettings.LinearLimit = Zero
    /\ in.CX # ZeroVector
    /\ out = in.CX

\* v points the way of w and is `length' long (w is not the zero vector).
AlongWithLength(v, w, length) ==
    /\ Same(Size(v), length)
    /\ SameVector(v, VScale(RDiv(length, Size(w)), w))

InSphere == pc = "GetSphereLimitedPositionError"

\* C6 as claimed: for a limit >= 0 the result is the zero vector when
\* |CX| < limit, and otherwise has the direction of CX and length |CX| - limit.
C6_RadialExcess ==
    (InSphere /\ RGeq(in.Radius, Zero)) =>
        IF RLess(Size(in.CX), in.Radius) THEN out = ZeroVector
        ELSE IF in.CX = ZeroVector THEN out = ZeroVector
        ELSE AlongWithLength(out, in.CX, RSub(Size(in.CX), in.Radius))

\* C6 as amended: for a limit >= 0 the result is the zero vector when
\* |CX| < limit; otherwise it has the direction of CX and length |CX| - limit
\* when |CX| > SMALL_NUMBER, and is CX unchanged when |CX| <= SMALL_NUMBER (so
\* a zero-length CX yields the zero vector).
C6_RadialExcessAboveThreshold ==
    (InSphere /\ RGeq(in.Radius, Zero)) =>
        IF RLess(Size(in.CX), in.Radius) THEN out = ZeroVector
        ELSE IF RGreater(Size(in.CX), SMALL_NUMBER)
             THEN AlongWithLength(out, in.CX, RSub(Size(in.CX), in.Radius))
        ELSE out = in.CX

\* An error that is not along a coordinate axis exceeds a positive radius.
C6_Witness ==
    /\ InSphere
    /\ RGreater(in.Radius, Zero)
    /\ RGreater(Size(in.CX), in.Radius)
    /\ \A i \in 1 .. 3 : ~Same(in.CX[i], Zero)
    /\ Same(Size(out), RSub(Size(in.CX), in.Radius))

\* sign(d) * max(|d| - L, 0)
ClippedDistance(d, L) ==
    IF RLess(RAbs(d), L) THEN Zero
    ELSE IF RGeq(d, L) THEN RSub(d, L)
    ELSE RAdd(d, L)

\* The part of v perpendicular to the unit vector axis.
Perpendicular(v, axis) == VSub(v, VScale(DotProduct(v, axis), axis))

\* Whether GetLimitedPositionError takes its line/square/cube branch.
InLineBranch ==
    /\ InLimitedPositionError
    /\ EffectiveMotion(in.JointSettings) # AllLocked
    /\ Cardinality({a \in Axes : EffectiveMotion(in.JointSettings)[a] = "Limited"}) < 2

\* The line steps of the branch applied in the axis order given.
LineStepsInOrder(order) ==
    LET Motion == EffectiveMotion(in.JointSettings)
        CX1 == LineStep(in.JointSettings, in.R0, Motion, in.CX, order[1])
        CX2 == LineStep(in.JointSettings, in.R0, Motion, CX1, order[2])
    IN  LineStep(in.JointSettings, in.R0, Motion, CX2, order[3])

AxisOrders == {o \in [1 .. 3 -> Axes] : {o[1], o[2], o[3]} = Axes}

\* C10: for a Limited axis and a limit L >= 0, GetLineLimitedPositionError
\* keeps the part of CX perpendicular to the axis and makes the component d
\* along the axis sign(d) * max(|d| - L, 0); in the line branch of
\* GetLimitedPositionError every Limited axis ends up clipped that way and
\* every order of the axes gives the result the code gives.
C10_LineClipping ==
    /\ (/\ pc = "GetLineLimitedPositionError"
        /\ in.AxisMotion = "Limited"
        /\ RGeq(in.Limit, Zero))
       => /\ SameVector(Perpendicular(out, in.Axis), Perpendicular(in.CX, in.Axis))
          /\ Same(DotProduct(out, in.Axis),
                  ClippedDistance(DotProduct(in.CX, in.Axis), in.Limit))
    /\ InLineBranch =>
          /\ \A o \in AxisOrders : SameVector(LineStepsInOrder(o), out)
          /\ RGeq(in.JointSettings.LinearLimit, Zero) =>
                \A a \in Axes :
                    EffectiveMotion(in.JointSettings)[a] = "Limited" =>
                        Same(DotProduct(out, WorldAxis(a)),
                             ClippedDistance(DotProduct(in.CX, WorldAxis(a)),
                                             in.JointSettings.LinearLimit))

\* The line branch clips a Limited axis from below (d <= -L < 0) and removes
\* a non-zero error along a Free axis.
C10_Witness ==
    /\ InLineBranch
    /\ RGreater(in.JointSettings.LinearLimit, Zero)
    /\ \E a \in Axes :
          /\ EffectiveMotion(in.JointSettings)[a] = "Limited"
          /\ RLess(DotProduct(in.CX, WorldAxis(a)), RNeg(in.JointSettings.LinearLimit))
    /\ \E b \in Axes :
          /\ EffectiveMotion(in.JointSettings)[b] = "Free"
          /\ ~Same(DotProduct(in.CX, WorldAxis(b)), Zero)
    /\ in.R0.Y # Zero

-----------------------------------------------------------------------------
(* Properties of the mass/inertia conditioner.                             *)

\* Largest-to-smallest component ratio of an inertia.
Anisotropy(I) == RDiv(VMax(I), VMin(I))

\* No two components change their order.
OrderKept(I, O) == \A i, j \in 1 .. 3 : RLeq(I[i], I[j]) => RLeq(O[i], O[j])

\* Distinct components stay distinct as well.
OrderKeptStrictly(I, O) == \A i, j \in 1 .. 3 : RLess(I[i], I[j]) <=> RLess(O[i], O[j])

InConditionInertia == pc = "ConditionInertia"

\* Whether ConditionInertia remaps its argument.
Remapped ==
    /\ RGreater(in.MaxRatio, Zero)
    /\ RGreater(VMin(in.InI), Zero)
    /\ RGreater(Anisotropy(in.InI), in.MaxRatio)

\* C7 as claimed: for every maxRatio > 0 and I with a positive minimum whose
\* max/min ratio exceeds maxRatio, the result keeps max(I), has ratio exactly
\* maxRatio and keeps the order of the components; otherwise the result is I;
\* hence the result's ratio never exceeds maxRatio.
C7_InertiaRatioBounded ==
    InConditionInertia =>
        /\ IF Remapped
           THEN /\ VMax(out) = VMax(in.InI)
                /\ Anisotropy(out) = in.MaxRatio
                /\ OrderKept(in.InI, out)
           ELSE out = in.InI
        /\ (RGreater(in.MaxRatio, Zero) /\ RGreater(VMin(in.InI), Zero))
              => RLeq(Anisotropy(out), in.MaxRatio)

\* C7 as amended: the same for every maxRatio >= 1 (a max/min ratio is never
\* below 1, so no result can have a ratio of maxRatio < 1); distinct
\* components stay distinct when maxRatio > 1; whenever the remap is not
\* taken the result is I.
C7_InertiaRatioBoundedFromOne ==
    InConditionInertia =>
        /\ (Remapped /\ RGeq(in.MaxRatio, One))
              => /\ VMax(out) = VMax(in.InI)
                 /\ Anisotropy(out) = in.MaxRatio
                 /\ OrderKept(in.InI, out)
                 /\ RGreater(in.MaxRatio, One) => OrderKeptStrictly(in.InI, out)
        /\ ~Remapped => out = in.InI
        /\ (RGeq(in.MaxRatio, One) /\ RGreater(VMin(in.InI), Zero))
              => RLeq(Anisotropy(out), in.MaxRatio)

\* I = (1, 1, 100) and maxRatio = 10 give (10, 10, 100).
C7_Witness ==
    /\ InConditionInertia
    /\ in.InI = Vec(R(1), R(1), R(100))
    /\ in.MaxRatio = R(10)
    /\ out = Vec(R(10), R(10), R(100))

InConditionPair == pc = "ConditionInverseMassAndInertia"

Positive(v) == \A i \in 1 .. 3 : RGreater(v[i], Zero)

BothDynamic ==
    /\ RGreater(in.InvMParent, Zero) /\ Positive(in.InvIParent)
    /\ RGreater(in.InvMChild, Zero) /\ Positive(in.InvIChild)

\* The parent/child mass ratio is at least the minimum, and exactly the
\* minimum when it was below before the call.
MassRatioConditioned ==
    LET before == RDiv(RDiv(One, in.InvMParent), RDiv(One, in.InvMChild))
        after  == RDiv(RDiv(One, out.InvMParent), RDiv(One, out.InvMChild))
    IN  /\ RGeq(after, in.MinParentMassRatio)
        /\ RLess(before, in.MinParentMassRatio) => after = in.MinParentMassRatio

\* Both anisotropies are bounded and the parent's largest inertia is at least
\* the minimum ratio times the child's.
InertiaConditioned ==
    /\ RLeq(Anisotropy(VInverse(out.InvIParent)), in.MaxInertiaRatio)
    /\ RLeq(Anisotropy(VInverse(out.InvIChild)), in.MaxInertiaRatio)
    /\ RGeq(RDiv(VMax(VInverse(out.InvIParent)), VMax(VInverse(out.InvIChild))),
            in.MinParentMassRatio)

\* C8 as claimed: with both bodies dynamic, MaxInertiaRatio > 0 and
\* MinParentMassRatio > 0, after the call both anisotropies are at most
\* MaxInertiaRatio, the mass ratio is at least MinParentMassRatio (exactly
\* that when it was below) and so is the ratio of the largest inertias.
C8_PairConditioned ==
    (/\ InConditionPair /\ BothDynamic
     /\ RGreater(in.MaxInertiaRatio, Zero) /\ RGreater(in.MinParentMassRatio, Zero))
    => MassRatioConditioned /\ InertiaConditioned

\* C8 as amended: the mass part as claimed; the inertia part for
\* MaxInertiaRatio >= 1.
C8_PairConditionedFromOne ==
    (/\ InConditionPair /\ BothDynamic
     /\ RGreater(in.MaxInertiaRatio, Zero) /\ RGreater(in.MinParentMassRatio, Zero))
    => /\ MassRatioConditioned
       /\ RGeq(in.MaxInertiaRatio, One) => InertiaConditioned

\* mParent = 1, mChild = 100 and a minimum ratio of 0.5 give mParent' = 50,
\* and a parent inertia that was first made less anisotropic is then scaled up
\* against the child's.
C8_Witness ==
    /\ InConditionPair /\ BothDynamic
    /\ in.InvMParent = One /\ in.InvMChild = <<1, 100>>
    /\ in.MinParentMassRatio = <<1, 2>> /\ in.MaxInertiaRatio = R(10)
    /\ out.InvMParent = <<1, 50>>
    /\ Anisotropy(VInverse(in.InvIParent)) = R(100)
    /\ Anisotropy(VInverse(out.InvIParent)) = R(10)
    /\ VMax(VInverse(out.InvIParent)) = R(200)

\* What ConditionInertia alone makes of an inverse inertia.
SelfConditioned(InvI) == VInverse(ConditionInertia(VInverse(InvI), in.MaxInertiaRatio))

\* C11: ConditionInverseMassAndInertia leaves the inverse mass and inverse
\* inertia of a body with a non-positive inverse mass unchanged; it never
\* changes the child's inverse mass, and the child's inverse inertia only by
\* the child's own ConditionInertia; the parent is conditioned against the
\* child only when both inverse masses are positive, so beside a static child
\* a dynamic parent keeps its inverse mass and gets only its own
\* ConditionInertia.
C11_ConditioningFrame ==
    InConditionPair =>
        /\ RLeq(in.InvMParent, Zero) =>
              out.InvMParent = in.InvMParent /\ out.InvIParent = in.InvIParent
        /\ RLeq(in.InvMChild, Zero) =>
              out.InvMChild = in.InvMChild /\ out.InvIChild = in.InvIChild
        /\ RGreater(in.InvMChild, Zero) =>
              out.InvMChild = in.InvMChild /\ out.InvIChild = SelfConditioned(in.InvIChild)
        /\ (RGreater(in.InvMParent, Zero) /\ RLeq(in.InvMChild, Zero)) =>
              out.InvMParent = in.InvMParent /\ out.InvIParent = SelfConditioned(in.InvIParent)

\* A static parent with a non-zero inverse inertia is left alone while the
\* dynamic child, lighter than the minimum ratio would allow a parent to be,
\* has its inertia made less anisotropic and nothing else.
C11_Witness ==
    /\ InConditionPair
    /\ in.InvMParent = Zero /\ in.InvIParent = Vec(One, One, <<1, 100>>)
    /\ out.InvMParent = Zero /\ out.InvIParent = in.InvIParent
    /\ in.InvMChild = R(2) /\ in.InvIChild = Vec(One, One, <<1, 100>>)
    /\ in.MaxInertiaRatio = R(10) /\ in.MinParentMassRatio = R(2)
    /\ out.InvMChild = R(2) /\ out.InvIChild = Vec(<<1, 10>>, <<1, 10>>, <<1, 100>>)

-----------------------------------------------------------------------------
(* Properties of the twist angle.                                          *)

InTwistAngle == pc = "GetTwistAngle"

\* The twist quaternion with the sign of its X component flipped (same W).
FlipX(Q) == [Q EXCEPT !.Phase = (2 * PI - Q.Phase) % (2 * PI)]

\* C9 as claimed: the twist angle is in (-pi, pi], and flipping the sign of X
\* negates it.
C9_TwistAngleHalfOpen ==
    InTwistAngle =>
        /\ -PI < out /\ out <= PI
        /\ GetTwistAngle(FlipX(in)) = -out

\* C9 as amended: the twist angle is in [-pi, pi], -pi being returned exactly
\* for W = 0 with X < 0, and flipping the sign of X negates it.
C9_TwistAngleClosed ==
    InTwistAngle =>
        /\ -PI <= out /\ out <= PI
        /\ out = -PI <=> in.Phase = 3 * HalfPiSteps
        /\ GetTwistAngle(FlipX(in)) = -out

\* An un-normalized twist with W < 0 and X < 0: the raw angle is above pi, is
\* remapped below zero and then negated.
C9_Witness ==
    /\ InTwistAngle
    /\ in.Magnitude > 1
    /\ in.Phase > PI /\ in.Phase < 3 * HalfPiSteps
    /\ GetAngle(GetNormalized(in)) > PI
    /\ out > 0 /\ out < PI

====
